---- MODULE Spec2Model ----
(***************************************************************************)
(* Position and order lifecycle of the ETF gap-down trader                 *)
(* (src/streamlit_kite_etf_trader.py).                                     *)
(*                                                                         *)
(* Units.  Prices (ltp, prev_close, avg_buy_price, trade price) are        *)
(* integers in paise (98.01 rupees = 9801).  target_price and              *)
(* trigger_price are in hundredths of a paise (price * 103 for a 3%        *)
(* target), so that price * (1 + 3/100) is exact.  total_capital is in     *)
(* rupees.  On the values used here the float arithmetic of the source     *)
(* and this exact arithmetic give the same comparisons and quotients.      *)
(***************************************************************************)
EXTENDS Integers, Sequences, FiniteSets, TLC

\* ---- program constants ----
BUY_GAP_PERCENT == 2
SELL_TARGET_PERCENT == 3
LOSS_ALERT_PERCENT == 5
DEFAULT_QTY == 10

\* ---- bounds of the model ----
MaxRuns == 2
MaxGtt == 3
MaxSells == 2

\* ---- finite domains ----
Symbols == {"NIFTYBEES", "BANKBEES"}
Monitors == {"m1", "m2"}
Sessions == {"u1"}
Threads == Monitors \cup Sessions

NoPrevClose == -1
LtpValues == {0, 9800, 9801, 10200}
PrevCloseValues == {0, 10000}
BalanceValues == {0, 100, 100000}
FillPrices == {9900}
PartialFill == 1
GttQuotes == {0, 9800}
ManualTriggers == {9800}
ManualOrderTypes == {"LIMIT"}
SellQuantities == {1}
SellPrices == {10200}

\* inputs of the sizing specification
DeploymentChoices == {50, 70, 90}
PerTradeChoices == {5, 10}
SizingCapital == {0, 100, 4000, 20000, 100000}
SizingPrices == {-100, 0, 9800, 25000}

VARIABLES
    positions,              \* rows of table positions
    trades,                 \* rows of table trades, in insertion order
    gtt_orders,             \* rows of table gtt_orders
    kite_orders,            \* orders accepted by the broker
    next_order_id,          \* next order id the broker issues
    next_gtt_id,            \* next trigger id the broker issues
    kite_gtts,              \* GTT triggers held by the broker, with their status there
    notified,               \* notifications sent by the step just taken: <<kind, symbol>>
    bought_today,           \* MONITOR_STATE["bought_today"]
    last_prev_close,        \* MONITOR_STATE["last_prev_close"]
    total_capital,          \* MONITOR_STATE["total_capital"]
    last_balance_update,    \* MONITOR_STATE["last_balance_update"] is set
    deployment_percentage,
    reserve_percentage,
    per_trade_percentage,
    dry_run,                \* MONITOR_STATE["dry_run"]
    symbols,                \* MONITOR_STATE["symbols"], the watchlist
    runs,                   \* buy runs started so far
    th                      \* per thread: program counter and locals

db == <<positions, trades, gtt_orders>>
broker == <<kite_orders, next_order_id, next_gtt_id, kite_gtts>>
capital == <<total_capital, last_balance_update, deployment_percentage,
             reserve_percentage, per_trade_percentage>>
mem == <<bought_today, last_prev_close, dry_run, symbols>>
vars == <<positions, trades, gtt_orders, kite_orders, next_order_id, next_gtt_id, kite_gtts, notified,
          bought_today, last_prev_close, total_capital, last_balance_update,
          deployment_percentage, reserve_percentage, per_trade_percentage,
          dry_run, symbols, runs, th>>

\* ---- rows ----
NoRow == [symbol |-> "-", qty |-> 0, avg_buy_price |-> 0, target_price |-> 0,
          status |-> "WATCHING", product |-> "CNC"]

PositionRow(symbol, qty, avg_buy_price, target_price, status, product) ==
    [symbol |-> symbol, qty |-> qty, avg_buy_price |-> avg_buy_price,
     target_price |-> target_price, status |-> status, product |-> product]

TradeRow(symbol, qty, side, price, order_id, dry) ==
    [symbol |-> symbol, qty |-> qty, side |-> side, price |-> price,
     order_id |-> order_id, dry_run |-> dry]

GttRow(symbol, gtt_id, trigger_price, order_type, quantity, condition, transaction_type, product) ==
    [symbol |-> symbol, gtt_id |-> gtt_id, trigger_price |-> trigger_price,
     order_type |-> order_type, quantity |-> quantity, condition |-> condition,
     status |-> "ACTIVE", transaction_type |-> transaction_type,
     product |-> product]

\* a trigger as KITE.get_gtts lists it
KiteGtt(id, tradingsymbol, transaction_type, quantity) ==
    [id |-> id, tradingsymbol |-> tradingsymbol, transaction_type |-> transaction_type,
     quantity |-> quantity, status |-> "ACTIVE"]

Idle == [pc |-> "idle", caller |-> "-", symbol |-> "-", ltp |-> 0,
         prev_close |-> 0, qty |-> 0, dry_run |-> FALSE, order_id |-> 0,
         product_used |-> "-", executed_price |-> 0, filled_qty |-> 0,
         row |-> NoRow, closed |-> {}, active_gtts |-> {}, handled |-> {}, errors |-> {},
         attempts |-> <<>>, holds_db_lock |-> FALSE]

\* ---- persistence ----
save_trade(T, symbol, qty, side, price, order_id, dry) ==
    Append(T, TradeRow(symbol, qty, side, price, order_id, dry))

upsert_position_insert_only(P, symbol, qty, avg_buy_price, target_price, status, product) ==
    P \cup {PositionRow(symbol, qty, avg_buy_price, target_price, status, product)}

upsert_position(P, symbol, qty, avg_buy_price, target_price, status, product) ==
    IF \E r \in P : r.symbol = symbol
    THEN {IF r.symbol = symbol
          THEN PositionRow(symbol, qty, avg_buy_price, target_price, status, product)
          ELSE r : r \in P}
    ELSE P \cup {PositionRow(symbol, qty, avg_buy_price, target_price, status, product)}

has_active_position(P, symbol) ==
    \E r \in P : r.symbol = symbol /\ r.status = "BOUGHT"

has_pending_gtt(G, symbol) ==
    \E g \in G : g.symbol = symbol /\ g.status = "ACTIVE"

cleanup_sold_positions(P) == {r \in P : r.status # "SOLD"}

save_gtt_order(G, symbol, gtt_id, trigger_price, order_type, quantity, condition, transaction_type, product) ==
    G \cup {GttRow(symbol, gtt_id, trigger_price, order_type, quantity,
                   condition, transaction_type, product)}

\* ---- capital ----
RECURSIVE SumCost(_)
SumCost(S) ==
    IF S = {} THEN 0
    ELSE LET r == CHOOSE x \in S : TRUE
         IN r.qty * r.avg_buy_price + SumCost(S \ {r})

\* the sum taken over every row, closed ones included
calculate_allocated_capital_all_rows(P) == SumCost(P)

\* paise
calculate_allocated_capital(P) ==
    SumCost({r \in P : r.status \notin {"TARGET_HIT", "SOLD"}})

\* rupees * 10^4
per_trade_allocation(total, dep_pct, per_pct) == total * dep_pct * per_pct

\* available capital compared without the capital already allocated
insufficient_capital_ignores_allocated(total, dep_pct, per_pct, allocated) ==
    (total * dep_pct * 100) < total * dep_pct * per_pct

\* available_deployment_capital < per_trade_allocation, both in rupees * 10^4
insufficient_capital(total, dep_pct, per_pct, allocated) ==
    (total * dep_pct * 100 - allocated * 100) < per_trade_allocation(total, dep_pct, per_pct)

\* max(1, int(per_trade_allocation / ltp)), as setup_gtt_for_watchlist sizes
dynamic_quantity_floor_one(total, dep_pct, per_pct, allocated, ltp) ==
    IF (total * dep_pct * 100 - allocated * 100) < total * dep_pct * per_pct THEN 0
    ELSE IF ltp <= 0 THEN 1
    ELSE LET quantity == (total * dep_pct * per_pct) \div (100 * ltp)
         IN IF quantity <= 1 THEN 1 ELSE quantity

\* the tail of calculate_dynamic_trade_quantity, after the balance is known
dynamic_quantity(total, dep_pct, per_pct, allocated, ltp) ==
    IF insufficient_capital(total, dep_pct, per_pct, allocated) THEN 0
    ELSE IF ltp <= 0 THEN 0
    ELSE LET quantity == per_trade_allocation(total, dep_pct, per_pct) \div (100 * ltp)
         IN IF quantity <= 0 THEN 0 ELSE quantity

\* ---- gap detector ----
should_buy_strict(ltp, prev_close) ==
    ltp * 100 < prev_close * (100 - BUY_GAP_PERCENT)

should_buy(ltp, prev_close) ==
    LET threshold == prev_close * (100 - BUY_GAP_PERCENT)   \* paise * 100
    IN ltp * 100 <= threshold

target_of(price) == price * (100 + SELL_TARGET_PERCENT)

\* ---- initial state ----
InitWith(watchlist, started, modes) ==
    /\ symbols = watchlist
    /\ positions = {}
    /\ trades = <<>>
    /\ gtt_orders = {}
    /\ kite_orders = {}
    /\ next_order_id = 1
    /\ next_gtt_id = 1
    /\ kite_gtts = {}
    /\ notified = {}
    /\ bought_today = {}
    /\ last_prev_close = [s \in Symbols |-> NoPrevClose]
    /\ total_capital = 0
    /\ last_balance_update = FALSE
    /\ deployment_percentage = 70
    /\ reserve_percentage = 30
    /\ per_trade_percentage = 5
    /\ dry_run \in modes
    /\ runs = 0
    /\ th = [t \in Threads |-> IF t \in started THEN Idle ELSE [Idle EXCEPT !.pc = "off"]]

\* one symbol watched, one dashboard session and its monitor thread
Init == InitWith({"NIFTYBEES"}, {"m1", "u1"}, BOOLEAN)

At(t, label) == th[t].pc = label
Goto(t, label) == th' = [th EXCEPT ![t].pc = label]
Return(t) == th' = [th EXCEPT ![t] = Idle]
MayStart == runs < MaxRuns

\* ---- monitor_loop: one symbol of one pass ----
\* the two tests of the pass on its quote and the row it read
target_reached(ltp, row) ==
    ltp * 100 >= row.target_price /\ row.status # "TARGET_HIT"

loss_alert(ltp, row) ==
    /\ ltp * 100 <= row.avg_buy_price * (100 - LOSS_ALERT_PERCENT)
    /\ row.status \notin {"ALERTED", "STOP_LOSS_HIT"}

\* a row exists and is open: fetch_ltp and the read of the row; a pass that
\* finds neither test true writes nothing
MonitorEvaluate(t) ==
    /\ t \in Monitors /\ At(t, "idle")
    /\ \E s \in symbols, ltp \in LtpValues :
         \E row \in {r \in positions : r.symbol = s} :
            /\ row.status \notin {"TARGET_HIT", "SOLD"}
            /\ IF target_reached(ltp, row) \/ loss_alert(ltp, row)
               THEN th' = [th EXCEPT ![t] = [Idle EXCEPT
                              !.pc = IF target_reached(ltp, row) THEN "eval_target"
                                     ELSE "eval_alert",
                              !.symbol = s, !.ltp = ltp, !.row = row]]
               ELSE UNCHANGED th
    /\ notified' = {}
    /\ UNCHANGED <<db, broker, mem, capital, runs>>

\* no row: call check_and_execute_buy(symbol, qty, dry_run)
MonitorCallBuy(t) ==
    /\ t \in Monitors /\ At(t, "idle")
    /\ MayStart
    /\ \E s \in symbols :
         /\ ~ \E r \in positions : r.symbol = s
         /\ th' = [th EXCEPT ![t] = [Idle EXCEPT !.pc = "gate_mem", !.caller = "auto",
                                                !.symbol = s, !.qty = DEFAULT_QTY,
                                                !.dry_run = dry_run]]
    /\ runs' = runs + 1
    /\ notified' = {}
    /\ UNCHANGED <<db, broker, mem, capital>>

EvalTarget(t) ==
    /\ At(t, "eval_target")
    /\ LET r == th[t].row
       IN /\ notified' = {<<"TARGET_HIT", r.symbol>>}
          /\ positions' = upsert_position(positions, r.symbol, r.qty, r.avg_buy_price,
                                          r.target_price, "TARGET_HIT", "CNC")
    /\ Goto(t, "eval_release")
    /\ UNCHANGED <<trades, gtt_orders, broker, mem, capital, runs>>

\* the target step leaving the symbol in bought_today
EvalRelease_keeps_guard(t) ==
    /\ At(t, "eval_release")
    /\ IF loss_alert(th[t].ltp, th[t].row) THEN Goto(t, "eval_alert") ELSE Return(t)
    /\ notified' = {}
    /\ UNCHANGED <<db, broker, mem, capital, runs>>

EvalRelease(t) ==
    /\ At(t, "eval_release")
    /\ bought_today' = bought_today \ {th[t].symbol}
    /\ IF loss_alert(th[t].ltp, th[t].row) THEN Goto(t, "eval_alert") ELSE Return(t)
    /\ notified' = {}
    /\ UNCHANGED <<db, broker, last_prev_close, dry_run, symbols, capital, runs>>

\* the test used the status read before the target test
EvalAlert(t) ==
    /\ At(t, "eval_alert")
    /\ LET r == th[t].row
       IN /\ notified' = {<<"STOP_LOSS_ALERT", r.symbol>>}
          /\ positions' = upsert_position(positions, r.symbol, r.qty, r.avg_buy_price,
                                          r.target_price, "ALERTED", "CNC")
    /\ Return(t)
    /\ UNCHANGED <<trades, gtt_orders, broker, mem, capital, runs>>

\* ---- check_and_execute_buy ----
GateMemory(t) ==
    /\ At(t, "gate_mem")
    /\ IF th[t].symbol \in bought_today THEN Return(t) ELSE Goto(t, "gate_db")
    /\ notified' = {}
    /\ UNCHANGED <<db, broker, mem, capital, runs>>

GateDatabase(t) ==
    /\ At(t, "gate_db")
    /\ IF \E r \in positions : r.symbol = th[t].symbol /\ r.status \notin {"TARGET_HIT", "SOLD"}
       THEN /\ bought_today' = bought_today \cup {th[t].symbol}
            /\ Return(t)
       ELSE /\ Goto(t, "prev")
            /\ UNCHANGED bought_today
    /\ notified' = {}
    /\ UNCHANGED <<db, broker, last_prev_close, dry_run, symbols, capital, runs>>

ResolvePrevClose(t) ==
    /\ At(t, "prev")
    /\ LET s == th[t].symbol
       IN IF last_prev_close[s] # NoPrevClose
          THEN /\ th' = [th EXCEPT ![t].prev_close = last_prev_close[s], ![t].pc = "ltp"]
               /\ UNCHANGED last_prev_close
          ELSE \/ /\ Return(t)                      \* fetch_prev_close gave None
                  /\ UNCHANGED last_prev_close
               \/ \E v \in PrevCloseValues :
                     /\ last_prev_close' = [last_prev_close EXCEPT ![s] = v]
                     /\ th' = [th EXCEPT ![t].prev_close = v, ![t].pc = "ltp"]
    /\ notified' = {}
    /\ UNCHANGED <<db, broker, bought_today, dry_run, symbols, capital, runs>>

\* the insertion into bought_today moved ahead of fetch_ltp
Decide_guard_first(t) ==
    /\ At(t, "ltp")
    /\ bought_today' = bought_today \cup {th[t].symbol}
    /\ \/ Return(t)
       \/ \E v \in LtpValues :
             IF should_buy(v, th[t].prev_close)
             THEN th' = [th EXCEPT ![t].ltp = v, ![t].pc = "size"]
             ELSE Return(t)
    /\ notified' = {}
    /\ UNCHANGED <<db, broker, last_prev_close, dry_run, symbols, capital, runs>>

\* fetch_ltp, should_buy, and the insertion into bought_today
Decide(t) ==
    /\ At(t, "ltp")
    /\ \/ /\ Return(t)                              \* fetch_ltp gave None
          /\ UNCHANGED bought_today
       \/ \E v \in LtpValues :
             IF should_buy(v, th[t].prev_close)
             THEN /\ bought_today' = bought_today \cup {th[t].symbol}
                  /\ th' = [th EXCEPT ![t].ltp = v, ![t].pc = "size"]
             ELSE /\ Return(t)
                  /\ UNCHANGED bought_today
    /\ notified' = {}
    /\ UNCHANGED <<db, broker, last_prev_close, dry_run, symbols, capital, runs>>

\* calculate_dynamic_trade_quantity with the balance known
SizeWith(t, total) ==
    LET q == dynamic_quantity(total, deployment_percentage, per_trade_percentage,
                              calculate_allocated_capital(positions), th[t].ltp)
    IN th' = [th EXCEPT ![t].qty = q, ![t].pc = "sized"]

Size(t) ==
    /\ At(t, "size")
    /\ IF total_capital = 0 \/ ~last_balance_update
       THEN \E b \in BalanceValues :                \* update_capital_allocation
               IF b <= 0
               THEN /\ th' = [th EXCEPT ![t].qty = 0, ![t].pc = "sized"]
                    /\ UNCHANGED <<total_capital, last_balance_update>>
               ELSE /\ total_capital' = b
                    /\ last_balance_update' = TRUE
                    /\ SizeWith(t, b)
       ELSE /\ SizeWith(t, total_capital)
            /\ UNCHANGED <<total_capital, last_balance_update>>
    /\ notified' = {}
    /\ UNCHANGED <<db, broker, mem, deployment_percentage,
                   reserve_percentage, per_trade_percentage, runs>>

\* dynamic_qty <= 0 returns; otherwise the dry-run or the live branch
CheckQuantity(t) ==
    /\ At(t, "sized")
    /\ IF th[t].qty <= 0 THEN Return(t)
       ELSE Goto(t, IF th[t].dry_run THEN "dry_trade" ELSE "place")
    /\ notified' = {}
    /\ UNCHANGED <<db, broker, mem, capital, runs>>

DryTrade(t) ==
    /\ At(t, "dry_trade")
    /\ trades' = save_trade(trades, th[t].symbol, th[t].qty, "BUY", th[t].ltp, 0, TRUE)
    /\ Goto(t, "dry_pos")
    /\ notified' = {}
    /\ UNCHANGED <<positions, gtt_orders, broker, mem, capital, runs>>

DryPosition(t) ==
    /\ At(t, "dry_pos")
    /\ positions' = upsert_position(positions, th[t].symbol, th[t].qty, th[t].ltp,
                                    target_of(th[t].ltp), "BOUGHT", "CNC")
    /\ notified' = {<<"DRY_RUN_BOUGHT", th[t].symbol>>}
    /\ Return(t)
    /\ UNCHANGED <<trades, gtt_orders, broker, mem, capital, runs>>

\* ---- KiteWrapper.place_market_buy ----
BuyOrder(id, symbol, qty, product) ==
    [order_id |-> id, symbol |-> symbol, transaction_type |-> "BUY", quantity |-> qty,
     order_type |-> "MARKET", product |-> product, price |-> 0]

\* both products rejected and the exception swallowed without a trade row
PlaceMarketBuy_unrecorded(t) ==
    /\ At(t, "place")
    /\ \/ \E product \in {"MTF", "CNC"} :
             /\ kite_orders' = kite_orders \cup
                    {BuyOrder(next_order_id, th[t].symbol, th[t].qty, product)}
             /\ next_order_id' = next_order_id + 1
             /\ th' = [th EXCEPT ![t].order_id = next_order_id, ![t].product_used = product,
                                 ![t].attempts = IF product = "MTF" THEN <<"MTF">>
                                                 ELSE <<"MTF", "CNC">>,
                                 ![t].pc = "verify"]
             /\ notified' = {}
       \/ /\ notified' = {}
          /\ Return(t)
          /\ UNCHANGED <<kite_orders, next_order_id>>
    /\ UNCHANGED <<positions, trades, gtt_orders, next_gtt_id, kite_gtts, mem, capital, runs>>

\* MTF first, CNC after MTF was rejected; both rejected raises, and the caller
\* records BUY_FAILED
PlaceMarketBuy(t) ==
    /\ At(t, "place")
    /\ \/ \E product \in {"MTF", "CNC"} :
             /\ kite_orders' = kite_orders \cup
                    {BuyOrder(next_order_id, th[t].symbol, th[t].qty, product)}
             /\ next_order_id' = next_order_id + 1
             /\ th' = [th EXCEPT ![t].order_id = next_order_id, ![t].product_used = product,
                                 ![t].attempts = IF product = "MTF" THEN <<"MTF">>
                                                 ELSE <<"MTF", "CNC">>,
                                 ![t].pc = "verify"]
             /\ notified' = {} /\ UNCHANGED trades
       \/ /\ notified' = IF th[t].caller = "auto"
                         THEN {<<"BUY_FAILED", th[t].symbol>>} ELSE {}
          /\ trades' = save_trade(trades, th[t].symbol, th[t].qty, "BUY_FAILED",
                                  th[t].ltp, 0, FALSE)
          /\ Return(t)
          /\ UNCHANGED <<kite_orders, next_order_id>>
    /\ UNCHANGED <<positions, gtt_orders, next_gtt_id, kite_gtts, mem, capital, runs>>

\* an order that is not COMPLETE taken as filled at the quote
VerifyAndRecord_assume_filled(t) ==
    /\ At(t, "verify")
    /\ \/ \E p \in FillPrices, q \in {th[t].qty, PartialFill} :
             /\ trades' = save_trade(trades, th[t].symbol, q, "BUY", p, th[t].order_id, FALSE)
             /\ th' = [th EXCEPT ![t].executed_price = p, ![t].filled_qty = q,
                                 ![t].pc = "rec_pos"]
       \/ /\ trades' = save_trade(trades, th[t].symbol, th[t].qty, "BUY_PENDING",
                                  th[t].ltp, th[t].order_id, FALSE)
          /\ th' = [th EXCEPT ![t].executed_price = th[t].ltp, ![t].filled_qty = th[t].qty,
                              ![t].pc = "rec_pos"]
    /\ notified' = {}
    /\ UNCHANGED <<positions, gtt_orders, broker, mem, capital, runs>>

\* verify_order_execution, once, and the trade row that follows from it
VerifyAndRecord(t) ==
    /\ At(t, "verify")
    /\ \/ \E p \in FillPrices, q \in {th[t].qty, PartialFill} :
             /\ trades' = save_trade(trades, th[t].symbol, q, "BUY", p, th[t].order_id, FALSE)
             /\ th' = [th EXCEPT ![t].executed_price = p, ![t].filled_qty = q,
                                 ![t].pc = "rec_pos"]
             /\ notified' = {}
       \/ /\ trades' = save_trade(trades, th[t].symbol, th[t].qty, "BUY_PENDING",
                                  th[t].ltp, th[t].order_id, FALSE)
          /\ notified' = IF th[t].caller = "auto"
                         THEN {<<"BUY_PENDING", th[t].symbol>>} ELSE {}
          /\ Return(t)
    /\ UNCHANGED <<positions, gtt_orders, broker, mem, capital, runs>>

\* the position written from the requested quantity and the quote
RecordPosition_as_requested(t) ==
    /\ At(t, "rec_pos")
    /\ positions' = upsert_position(positions, th[t].symbol, th[t].qty, th[t].ltp,
                                    target_of(th[t].ltp), "BOUGHT", th[t].product_used)
    /\ IF th[t].caller = "auto"
       THEN Goto(t, "gtt_sell") /\ UNCHANGED bought_today
       ELSE bought_today' = bought_today \cup {th[t].symbol} /\ Return(t)
    /\ notified' = {}
    /\ UNCHANGED <<trades, gtt_orders, broker, last_prev_close, dry_run, symbols, capital, runs>>

RecordPosition(t) ==
    /\ At(t, "rec_pos")
    /\ IF th[t].caller = "auto"
       THEN /\ positions' = upsert_position(positions, th[t].symbol, th[t].filled_qty,
                                th[t].executed_price, target_of(th[t].executed_price),
                                "BOUGHT", th[t].product_used)
            /\ Goto(t, "gtt_sell")
            /\ UNCHANGED bought_today
       ELSE /\ positions' = upsert_position(positions, th[t].symbol, th[t].filled_qty,
                                th[t].executed_price, target_of(th[t].executed_price),
                                "BOUGHT", "CNC")
            /\ bought_today' = bought_today \cup {th[t].symbol}
            /\ Return(t)
    /\ notified' = {}
    /\ UNCHANGED <<trades, gtt_orders, broker, last_prev_close, dry_run, symbols, capital, runs>>

\* a failed sell GTT undoing the buy: the row deleted and BUY_FAILED written
GttSell_rollback(t) ==
    /\ At(t, "gtt_sell")
    /\ LET target == target_of(th[t].executed_price)
       IN \/ /\ gtt_orders' = save_gtt_order(gtt_orders, th[t].symbol, next_gtt_id, target,
                                  "LIMIT", th[t].filled_qty, ">=", "SELL", th[t].product_used)
             /\ next_gtt_id' = next_gtt_id + 1
             /\ kite_gtts' = kite_gtts \cup
                    {KiteGtt(next_gtt_id, th[t].symbol, "SELL", th[t].filled_qty)}
             /\ notified' = {<<"GTT_TARGET_SET", th[t].symbol>>,
                                           <<"BUY_EXECUTED", th[t].symbol>>}
             /\ UNCHANGED <<positions, trades>>
          \/ /\ notified' = {<<"GTT_SELL_FAILED", th[t].symbol>>}
             /\ positions' = {r \in positions : r.symbol # th[t].symbol}
             /\ trades' = save_trade(trades, th[t].symbol, th[t].qty, "BUY_FAILED",
                                     th[t].ltp, 0, FALSE)
             /\ UNCHANGED <<gtt_orders, next_gtt_id, kite_gtts>>
    /\ Goto(t, "limit_sell")
    /\ UNCHANGED <<kite_orders, next_order_id, mem, capital, runs>>

\* KITE.place_gtt for the sell target, then the BUY EXECUTED notification
GttSell(t) ==
    /\ At(t, "gtt_sell")
    /\ LET target == target_of(th[t].executed_price)
       IN \/ /\ gtt_orders' = save_gtt_order(gtt_orders, th[t].symbol, next_gtt_id, target,
                                  "LIMIT", th[t].filled_qty, ">=", "SELL", th[t].product_used)
             /\ next_gtt_id' = next_gtt_id + 1
             /\ kite_gtts' = kite_gtts \cup
                    {KiteGtt(next_gtt_id, th[t].symbol, "SELL", th[t].filled_qty)}
             /\ notified' = {<<"GTT_TARGET_SET", th[t].symbol>>,
                                           <<"BUY_EXECUTED", th[t].symbol>>}
          \/ /\ notified' = {<<"GTT_SELL_FAILED", th[t].symbol>>,
                                           <<"BUY_EXECUTED", th[t].symbol>>}
             /\ UNCHANGED <<gtt_orders, next_gtt_id, kite_gtts>>
    /\ Goto(t, "limit_sell")
    /\ UNCHANGED <<positions, trades, kite_orders, next_order_id, mem, capital, runs>>

round_paise(x100) == (x100 + 50) \div 100

LimitSell(t) ==
    /\ At(t, "limit_sell")
    /\ LET price == round_paise(target_of(th[t].executed_price))
       IN \/ /\ kite_orders' = kite_orders \cup
                    {[order_id |-> next_order_id, symbol |-> th[t].symbol,
                      transaction_type |-> "SELL", quantity |-> th[t].filled_qty,
                      order_type |-> "LIMIT", product |-> "CNC", price |-> price]}
             /\ next_order_id' = next_order_id + 1
             /\ trades' = save_trade(trades, th[t].symbol, th[t].filled_qty,
                                     "SELL_LIMIT_PLACED", price, next_order_id, FALSE)
             /\ notified' = {<<"TARGET_SELL_PLACED", th[t].symbol>>}
          \/ /\ notified' = {<<"SELL_ORDER_FAILED", th[t].symbol>>}
             /\ UNCHANGED <<trades, kite_orders, next_order_id>>
    /\ Return(t)
    /\ UNCHANGED <<positions, gtt_orders, next_gtt_id, kite_gtts, mem, capital, runs>>

\* ---- monitor_loop: the cleanup every 120th pass ----
HousekeepingScan(t) ==
    /\ t \in Monitors /\ At(t, "idle")
    /\ th' = [th EXCEPT ![t].pc = "hk_remove",
                        ![t].closed = {s \in bought_today :
                            \E r \in positions : r.symbol = s
                                                 /\ r.status \in {"TARGET_HIT", "SOLD"}}]
    /\ notified' = {}
    /\ UNCHANGED <<db, broker, mem, capital, runs>>

\* bought_today.remove(symbol) for each closed symbol, KeyError ending the
\* thread; then cleanup_sold_positions
HousekeepingRemove(t) ==
    /\ At(t, "hk_remove")
    /\ IF th[t].closed = {}
       THEN /\ positions' = cleanup_sold_positions(positions)
            /\ notified' = IF positions' # positions THEN {<<"CLEANED_UP", "-">>} ELSE {}
            /\ Return(t)
            /\ UNCHANGED bought_today
       ELSE /\ \E s \in th[t].closed :
                  IF s \in bought_today
                  THEN /\ bought_today' = bought_today \ {s}
                       /\ th' = [th EXCEPT ![t].closed = th[t].closed \ {s}]
                  ELSE /\ th' = [th EXCEPT ![t] = [Idle EXCEPT !.pc = "dead"]]
                       /\ UNCHANGED bought_today
            /\ notified' = {}
            /\ UNCHANGED positions
    /\ UNCHANGED <<trades, gtt_orders, broker, last_prev_close, dry_run, symbols, capital, runs>>

\* ---- dashboard: manual BUY ----
ManualBuy(u) ==
    /\ u \in Sessions /\ At(u, "idle")
    /\ MayStart
    /\ \E s \in symbols :
         /\ ~has_active_position(positions, s)
         /\ ~has_pending_gtt(gtt_orders, s)
         /\ s \notin bought_today
         /\ th' = [th EXCEPT ![u] = [Idle EXCEPT
                       !.pc = IF dry_run THEN "man_dry" ELSE "place",
                       !.caller = "manual", !.symbol = s, !.qty = DEFAULT_QTY,
                       !.dry_run = dry_run]]
    /\ runs' = runs + 1
    /\ notified' = {}
    /\ UNCHANGED <<db, broker, mem, capital>>

\* quote.get('last_price', 0) on a quote keyed by "NSE:<symbol>" is 0
ManualBuyDryRun(u) ==
    /\ At(u, "man_dry")
    /\ trades' = save_trade(trades, th[u].symbol, th[u].qty, "BUY", 0, 0, TRUE)
    /\ bought_today' = bought_today \cup {th[u].symbol}
    /\ Return(u)
    /\ notified' = {}
    /\ UNCHANGED <<positions, gtt_orders, broker, last_prev_close, dry_run, symbols, capital, runs>>

\* ---- dashboard: controls ----
ResetBoughtToday ==
    /\ bought_today # {}
    /\ bought_today' = {}
    /\ notified' = {}
    /\ UNCHANGED <<db, broker, last_prev_close, dry_run, symbols, capital, runs, th>>

\* "Refresh Balance": margins() answered with cash
RefreshBalance ==
    /\ \E cash \in BalanceValues :
         /\ total_capital' = cash
         /\ last_balance_update' = TRUE
    /\ notified' = {}
    /\ UNCHANGED <<db, broker, mem, deployment_percentage,
                   reserve_percentage, per_trade_percentage, runs, th>>

\* "Refresh Real Balance": update_capital_allocation
update_capital_allocation ==
    /\ \E b \in BalanceValues :
         /\ b > 0
         /\ total_capital' = b
         /\ last_balance_update' = TRUE
    /\ notified' = {}
    /\ UNCHANGED <<db, broker, mem, deployment_percentage,
                   reserve_percentage, per_trade_percentage, runs, th>>

\* the sliders stored without the reserve being derived again
AdvancedCapitalSettings_keeps_reserve ==
    /\ \E deployment_pct \in DeploymentChoices, per_trade_pct \in PerTradeChoices :
         /\ deployment_pct # deployment_percentage \/ per_trade_pct # per_trade_percentage
         /\ deployment_percentage' = deployment_pct
         /\ per_trade_percentage' = per_trade_pct
    /\ notified' = {}
    /\ UNCHANGED <<db, broker, mem, total_capital, last_balance_update, reserve_percentage, runs, th>>

\* "Advanced Capital Settings": the two sliders, stored when either moved
AdvancedCapitalSettings ==
    /\ \E deployment_pct \in DeploymentChoices, per_trade_pct \in PerTradeChoices :
         /\ deployment_pct # deployment_percentage \/ per_trade_pct # per_trade_percentage
         /\ deployment_percentage' = deployment_pct
         /\ reserve_percentage' = 100 - deployment_pct
         /\ per_trade_percentage' = per_trade_pct
    /\ notified' = {}
    /\ UNCHANGED <<db, broker, mem, total_capital, last_balance_update, runs, th>>

\* ---- setup_gtt_strategy for one symbol of the watchlist ----
setup_gtt_strategy(symbol, prev_close, qty, dry) ==
    IF has_active_position(positions, symbol)
    THEN /\ notified' = {<<"GTT_WAITING", symbol>>}
         /\ UNCHANGED <<gtt_orders, next_gtt_id, kite_gtts>>
    ELSE IF has_pending_gtt(gtt_orders, symbol)
    THEN /\ notified' = {<<"GTT_DUPLICATE", symbol>>}
         /\ UNCHANGED <<gtt_orders, next_gtt_id, kite_gtts>>
    ELSE LET buy_trigger_price == prev_close * (100 - BUY_GAP_PERCENT)
         IN IF dry
            THEN /\ gtt_orders' = save_gtt_order(gtt_orders, symbol, next_gtt_id,
                                      buy_trigger_price, "MARKET", qty, "<=", "BUY", "-")
                 /\ next_gtt_id' = next_gtt_id + 1
                 /\ notified' = {}
                 /\ UNCHANGED kite_gtts
            ELSE \/ \E product \in {"MTF", "CNC"} :
                       /\ gtt_orders' = save_gtt_order(gtt_orders, symbol, next_gtt_id,
                                      buy_trigger_price, "MARKET", qty, "<=", "BUY", product)
                       /\ next_gtt_id' = next_gtt_id + 1
                       /\ kite_gtts' = kite_gtts \cup {KiteGtt(next_gtt_id, symbol, "BUY", qty)}
                       /\ notified' = {<<"GTT_SETUP", symbol>>}
               \/ /\ notified' = {<<"GTT_SETUP_FAILED", symbol>>}
                  /\ UNCHANGED <<gtt_orders, next_gtt_id, kite_gtts>>

SetupGtt ==
    /\ Cardinality(gtt_orders) < MaxGtt
    /\ \E s \in symbols, ltp \in GttQuotes :
         LET deployment_cap == total_capital * deployment_percentage
             qty == IF ltp > 0
                    THEN LET q == (deployment_cap * per_trade_percentage) \div (100 * ltp)
                         IN IF q > 1 THEN q ELSE 1
                    ELSE 10
         IN IF last_prev_close[s] # NoPrevClose
            THEN /\ setup_gtt_strategy(s, last_prev_close[s], qty, dry_run)
                 /\ UNCHANGED last_prev_close
            ELSE \E v \in PrevCloseValues :
                    /\ last_prev_close' = [last_prev_close EXCEPT ![s] = v]
                    /\ setup_gtt_strategy(s, v, qty, dry_run)
    /\ UNCHANGED <<positions, trades, kite_orders, next_order_id, bought_today, dry_run, symbols, capital, runs, th>>

\* ---- dashboard: manual SELL and the quick position actions ----
SellOrder(id, symbol, qty, order_type, price) ==
    [order_id |-> id, symbol |-> symbol, transaction_type |-> "SELL", quantity |-> qty,
     order_type |-> order_type, product |-> "CNC", price |-> price]

SellsSoFar ==
    Cardinality({o \in kite_orders : o.transaction_type = "SELL"})
    + Cardinality({i \in DOMAIN trades : trades[i].side = "SELL"})

\* the SELL button: a simulated SELL row in dry-run mode (the price read from
\* the quote is 0 for a market sell), otherwise place_limit_sell or
\* place_market_sell and a SELL_LIMIT or SELL_MARKET row; a rejected order
\* only shows an error
ManualSell(u) ==
    /\ u \in Sessions /\ At(u, "idle")
    /\ SellsSoFar < MaxSells
    /\ \E s \in symbols, q \in SellQuantities, sell_type \in {"Market", "Limit"},
          price_sell \in SellPrices :
         LET price == IF sell_type = "Limit" THEN price_sell ELSE 0
         IN IF dry_run
            THEN /\ trades' = save_trade(trades, s, q, "SELL", price, 0, TRUE)
                 /\ UNCHANGED <<kite_orders, next_order_id>>
            ELSE \/ /\ kite_orders' = kite_orders \cup
                          {SellOrder(next_order_id, s, q,
                                     IF sell_type = "Limit" THEN "LIMIT" ELSE "MARKET", price)}
                    /\ next_order_id' = next_order_id + 1
                    /\ trades' = save_trade(trades, s, q,
                                     IF sell_type = "Limit" THEN "SELL_LIMIT" ELSE "SELL_MARKET",
                                     price, next_order_id, FALSE)
                 \/ UNCHANGED <<trades, kite_orders, next_order_id>>
    /\ notified' = {}
    /\ UNCHANGED <<positions, gtt_orders, next_gtt_id, kite_gtts, mem, capital, runs, th>>

\* "Sell @ Target" and "Market Sell" of a row with qty > 0: an order in live
\* mode, a message in dry-run mode
QuickSell(u) ==
    /\ u \in Sessions /\ At(u, "idle")
    /\ SellsSoFar < MaxSells
    /\ \E pos \in positions, sell_type \in {"Market", "Limit"} :
         /\ pos.qty > 0
         /\ IF dry_run
            THEN UNCHANGED <<kite_orders, next_order_id>>
            ELSE \/ /\ kite_orders' = kite_orders \cup
                          {IF sell_type = "Limit"
                           THEN SellOrder(next_order_id, pos.symbol, pos.qty, "LIMIT",
                                          pos.target_price \div 100)
                           ELSE SellOrder(next_order_id, pos.symbol, pos.qty, "MARKET", 0)}
                    /\ next_order_id' = next_order_id + 1
                 \/ UNCHANGED <<kite_orders, next_order_id>>
    /\ notified' = {}
    /\ UNCHANGED <<db, next_gtt_id, kite_gtts, mem, capital, runs, th>>

\* ---- next-state relation ----
\* check_and_execute_buy on a monitor thread, live orders included
BuyPath(t) ==
    \/ MonitorCallBuy(t)
    \/ GateMemory(t) \/ GateDatabase(t) \/ ResolvePrevClose(t)
    \/ Decide(t) \/ Size(t) \/ CheckQuantity(t)
    \/ PlaceMarketBuy(t) \/ VerifyAndRecord(t) \/ RecordPosition(t)
    \/ GttSell(t) \/ LimitSell(t)

Next ==
    \/ \E t \in Monitors :
          \/ MonitorEvaluate(t) \/ MonitorCallBuy(t)
          \/ EvalTarget(t) \/ EvalRelease(t) \/ EvalAlert(t)
          \/ GateMemory(t) \/ GateDatabase(t) \/ ResolvePrevClose(t)
          \/ Decide(t) \/ Size(t) \/ CheckQuantity(t)
          \/ DryTrade(t) \/ DryPosition(t)
          \/ GttSell(t) \/ LimitSell(t)
          \/ HousekeepingScan(t) \/ HousekeepingRemove(t)
    \/ \E t \in Threads :
          \/ PlaceMarketBuy(t) \/ VerifyAndRecord(t) \/ RecordPosition(t)
    \/ \E u \in Sessions : ManualBuy(u) \/ ManualBuyDryRun(u)
    \/ ResetBoughtToday
    \/ RefreshBalance
    \/ update_capital_allocation

\* one dashboard session with its monitor thread, one symbol watched
Spec == Init /\ [][Next]_vars

\* two dashboard sessions have each started a monitor thread; live mode
InitRace == InitWith({"NIFTYBEES"}, {"m1", "m2"}, {FALSE})
NextRace == \E t \in Monitors : BuyPath(t)
SpecRace == InitRace /\ [][NextRace]_vars

\* the monitor thread in live mode and the "Setup GTT Orders" button
InitGtt == InitWith({"NIFTYBEES"}, {"m1"}, {FALSE})
NextGtt == (\E t \in Monitors : BuyPath(t)) \/ SetupGtt
SpecGtt == InitGtt /\ [][NextGtt]_vars

\* calculate_dynamic_trade_quantity applied to drawn inputs: the balance, the
\* percentages, the price, and the capital held by another symbol's position
InitSizing ==
    /\ symbols = {"NIFTYBEES", "BANKBEES"}
    /\ positions \in {{}} \cup {{PositionRow("BANKBEES", 35, 9900, target_of(9900), status, "CNC")} :
                                status \in {"BOUGHT", "TARGET_HIT"}}
    /\ trades = <<>>
    /\ gtt_orders = {}
    /\ kite_orders = {}
    /\ next_order_id = 1
    /\ next_gtt_id = 1
    /\ kite_gtts = {}
    /\ notified = {}
    /\ bought_today = {"NIFTYBEES"}
    /\ last_prev_close = [s \in Symbols |-> IF s = "NIFTYBEES" THEN 10000 ELSE NoPrevClose]
    /\ total_capital \in SizingCapital
    /\ last_balance_update = (total_capital > 0)
    /\ deployment_percentage = 70
    /\ reserve_percentage = 30
    /\ per_trade_percentage = 5
    /\ dry_run \in BOOLEAN
    /\ runs = 1
    /\ \E ltp \in SizingPrices :
          th = [t \in Threads |->
                  IF t = "m1"
                  THEN [Idle EXCEPT !.pc = "size", !.caller = "auto", !.symbol = "NIFTYBEES",
                                    !.qty = DEFAULT_QTY, !.dry_run = dry_run,
                                    !.prev_close = 10000, !.ltp = ltp]
                  ELSE [Idle EXCEPT !.pc = "off"]]

NextSizing == (\E t \in Monitors : Size(t) \/ CheckQuantity(t)) \/ AdvancedCapitalSettings
SpecSizing == InitSizing /\ [][NextSizing]_vars

\* two dashboard sessions have each started a monitor thread; dry-run mode, so
\* the buys and the evaluation of the rows they write run side by side
InitEval == InitWith({"NIFTYBEES"}, {"m1", "m2"}, {TRUE})

DryBuyPath(t) ==
    \/ MonitorCallBuy(t)
    \/ GateMemory(t) \/ GateDatabase(t) \/ ResolvePrevClose(t)
    \/ Decide(t) \/ Size(t) \/ CheckQuantity(t)
    \/ DryTrade(t) \/ DryPosition(t)

EvalPath(t) == MonitorEvaluate(t) \/ EvalTarget(t) \/ EvalRelease(t) \/ EvalAlert(t)

NextEval == \E t \in Monitors : DryBuyPath(t) \/ EvalPath(t)
SpecEval == InitEval /\ [][NextEval]_vars

\* one monitor thread in dry-run mode: its buys, its evaluation of the rows and
\* its cleanup; the thread keeps running, and a pass that may call
\* check_and_execute_buy does so
InitRelease == InitWith({"NIFTYBEES"}, {"m1"}, {TRUE})

Housekeeping(t) == HousekeepingScan(t) \/ HousekeepingRemove(t)

NextRelease == \E t \in Monitors : DryBuyPath(t) \/ EvalPath(t) \/ Housekeeping(t)

SpecRelease ==
    /\ InitRelease /\ [][NextRelease]_vars
    /\ WF_vars(NextRelease)
    /\ \A t \in Monitors : WF_vars(MonitorCallBuy(t))

\* the same thread with a funded account behind it: the balance fetch of a
\* sizing is answered with a positive balance; the capital sliders may move
FundedSize(t) == Size(t) /\ last_balance_update'

FundedBuyPath(t) ==
    \/ MonitorCallBuy(t)
    \/ GateMemory(t) \/ GateDatabase(t) \/ ResolvePrevClose(t)
    \/ Decide(t) \/ FundedSize(t) \/ CheckQuantity(t)
    \/ DryTrade(t) \/ DryPosition(t)

MonitorFunded(t) == FundedBuyPath(t) \/ EvalPath(t) \/ Housekeeping(t)

NextFunded == (\E t \in Monitors : MonitorFunded(t)) \/ AdvancedCapitalSettings

\* the thread keeps running whatever the dashboard does
SpecFunded ==
    /\ InitRelease /\ [][NextFunded]_vars
    /\ \A t \in Monitors : WF_vars(MonitorFunded(t)) /\ WF_vars(MonitorCallBuy(t))

\* verify_order_execution on an order history whose last entry is COMPLETE
\* and carries no average_price: the fill is recorded at the default 0
VerifyAndRecordUnpriced(t) ==
    /\ At(t, "verify")
    /\ trades' = save_trade(trades, th[t].symbol, th[t].qty, "BUY", 0, th[t].order_id, FALSE)
    /\ th' = [th EXCEPT ![t].executed_price = 0, ![t].filled_qty = th[t].qty,
                        ![t].pc = "rec_pos"]
    /\ notified' = {}
    /\ UNCHANGED <<positions, gtt_orders, broker, mem, capital, runs>>

\* one monitor thread in live mode: its buys, fills with and without a price,
\* and its evaluation of the rows
InitUnpriced == InitWith({"NIFTYBEES"}, {"m1"}, {FALSE})

NextUnpriced == \E t \in Monitors : BuyPath(t) \/ VerifyAndRecordUnpriced(t) \/ EvalPath(t)

SpecUnpriced == InitUnpriced /\ [][NextUnpriced]_vars

\* ---- DB_LOCK around the gate of check_and_execute_buy and the cleanup scan ----
LockFree == \A t \in Threads : ~th[t].holds_db_lock

\* `with DB_LOCK:` entered
GateAcquire(t) ==
    /\ At(t, "gate_db") /\ LockFree
    /\ th' = [th EXCEPT ![t].pc = "gate_db_cs", ![t].holds_db_lock = TRUE]
    /\ notified' = {}
    /\ UNCHANGED <<db, broker, mem, capital, runs>>

\* the gate passed with the lock still held
GateQuery_keeps_lock(t) ==
    /\ At(t, "gate_db_cs")
    /\ IF \E r \in positions : r.symbol = th[t].symbol /\ r.status \notin {"TARGET_HIT", "SOLD"}
       THEN /\ bought_today' = bought_today \cup {th[t].symbol}
            /\ Return(t)
       ELSE /\ Goto(t, "prev")
            /\ UNCHANGED bought_today
    /\ notified' = {}
    /\ UNCHANGED <<db, broker, last_prev_close, dry_run, symbols, capital, runs>>

\* the SELECT COUNT(*) inside the block; the block is left on either branch
GateQuery(t) ==
    /\ At(t, "gate_db_cs")
    /\ IF \E r \in positions : r.symbol = th[t].symbol /\ r.status \notin {"TARGET_HIT", "SOLD"}
       THEN /\ bought_today' = bought_today \cup {th[t].symbol}
            /\ Return(t)
       ELSE /\ th' = [th EXCEPT ![t].pc = "prev", ![t].holds_db_lock = FALSE]
            /\ UNCHANGED bought_today
    /\ notified' = {}
    /\ UNCHANGED <<db, broker, last_prev_close, dry_run, symbols, capital, runs>>

HkAcquire(t) ==
    /\ t \in Monitors /\ At(t, "idle") /\ LockFree
    /\ th' = [th EXCEPT ![t].pc = "hk_cs", ![t].holds_db_lock = TRUE]
    /\ notified' = {}
    /\ UNCHANGED <<db, broker, mem, capital, runs>>

HkScan(t) ==
    /\ At(t, "hk_cs")
    /\ th' = [th EXCEPT ![t].pc = "hk_remove", ![t].holds_db_lock = FALSE,
                        ![t].closed = {s \in bought_today :
                            \E r \in positions : r.symbol = s
                                                 /\ r.status \in {"TARGET_HIT", "SOLD"}}]
    /\ notified' = {}
    /\ UNCHANGED <<db, broker, mem, capital, runs>>

\* two monitor threads in live mode, the blocks under DB_LOCK taken apart; a
\* step that reads or writes the database waits for the lock
InitLock == InitWith({"NIFTYBEES"}, {"m1", "m2"}, {FALSE})

LockedBuyPath(t) ==
    \/ MonitorCallBuy(t) \/ GateMemory(t)
    \/ GateAcquire(t) \/ GateQuery(t)
    \/ ResolvePrevClose(t) \/ Decide(t) \/ CheckQuantity(t)
    \/ LockFree /\ (Size(t) \/ PlaceMarketBuy(t) \/ VerifyAndRecord(t) \/ RecordPosition(t))
    \/ LockFree /\ (GttSell(t) \/ LimitSell(t))

LockedHousekeeping(t) == HkAcquire(t) \/ HkScan(t) \/ (LockFree /\ HousekeepingRemove(t))

NextLock == \E t \in Monitors : LockedBuyPath(t) \/ LockedHousekeeping(t)

SpecLock == InitLock /\ [][NextLock]_vars

\* the monitor thread in either mode and the sell buttons of the dashboard
InitSell == InitWith({"NIFTYBEES"}, {"m1", "u1"}, BOOLEAN)

NextSell ==
    \/ \E t \in Monitors : BuyPath(t) \/ DryBuyPath(t) \/ EvalPath(t) \/ Housekeeping(t)
    \/ \E u \in Sessions : ManualSell(u) \/ QuickSell(u)

SpecSell == InitSell /\ [][NextSell]_vars

\* ---- GTT bookkeeping: status updates, reconciliation, cancellation ----
update_gtt_status(G, gtt_id, status) ==
    {IF g.gtt_id = gtt_id THEN [g EXCEPT !.status = status] ELSE g : g \in G}

load_active_gtts(G) == {g \in G : g.status = "ACTIVE"}

cancel_gtt_order(G, gtt_id) == update_gtt_status(G, gtt_id, "CANCELLED")

\* the broker fires, cancels or completes a trigger it holds; get_gtts shows
\* the new status from then on
BrokerGttEvent ==
    /\ \E g \in kite_gtts, status \in {"TRIGGERED", "CANCELLED", "COMPLETED"} :
         /\ g.status = "ACTIVE"
         /\ kite_gtts' = (kite_gtts \ {g}) \cup {[g EXCEPT !.status = status]}
    /\ notified' = {}
    /\ UNCHANGED <<db, kite_orders, next_order_id, next_gtt_id, mem, capital, runs, th>>

\* monitor_gtt_executions: KITE.get_gtts, which answers [] when the call fails
MonitorGttStart(u) ==
    /\ u \in Sessions /\ At(u, "idle")
    /\ \E listed \in {kite_gtts, {}} :
         th' = [th EXCEPT ![u].pc = "gtt_mon", ![u].active_gtts = listed]
    /\ notified' = {}
    /\ UNCHANGED <<db, broker, mem, capital, runs>>

\* one turn of its loop: a triggered BUY is marked locally and a sell target
\* at the current quote is placed for its quantity
MonitorGttStep(u) ==
    /\ At(u, "gtt_mon")
    /\ \E gtt \in th[u].active_gtts :
         /\ gtt.id \notin th[u].handled
         /\ th' = [th EXCEPT ![u].handled = @ \cup {gtt.id}]
         /\ IF gtt.status = "TRIGGERED" /\ gtt.transaction_type = "BUY"
            THEN LET marked == update_gtt_status(gtt_orders, gtt.id, "TRIGGERED")
                 IN \E current_ltp \in GttQuotes :
                      \/ /\ current_ltp > 0
                         /\ Cardinality(gtt_orders) < MaxGtt
                         /\ gtt_orders' = save_gtt_order(marked, gtt.tradingsymbol, next_gtt_id,
                                              target_of(current_ltp), "LIMIT", gtt.quantity,
                                              ">=", "SELL", "CNC")
                         /\ next_gtt_id' = next_gtt_id + 1
                         /\ kite_gtts' = kite_gtts \cup
                                {KiteGtt(next_gtt_id, gtt.tradingsymbol, "SELL", gtt.quantity)}
                         /\ notified' = {<<"GTT_TARGET_SET", gtt.tradingsymbol>>}
                      \/ /\ gtt_orders' = marked
                         /\ notified' = {}
                         /\ UNCHANGED <<next_gtt_id, kite_gtts>>
            ELSE /\ notified' = {}
                 /\ UNCHANGED <<gtt_orders, next_gtt_id, kite_gtts>>
    /\ UNCHANGED <<positions, trades, kite_orders, next_order_id, mem, capital, runs>>

MonitorGttReturn(u) ==
    /\ At(u, "gtt_mon")
    /\ \A gtt \in th[u].active_gtts : gtt.id \in th[u].handled
    /\ Return(u)
    /\ notified' = {}
    /\ UNCHANGED <<db, broker, mem, capital, runs>>

\* "Sync with Kite", shown while a local row is ACTIVE
SyncStatuses == {"TRIGGERED", "CANCELLED", "COMPLETE"}

SyncWithKite(u) ==
    /\ u \in Sessions /\ At(u, "idle")
    /\ load_active_gtts(gtt_orders) # {}
    /\ \E listed \in {kite_gtts, {}} :
         gtt_orders' = {IF \E k \in listed : k.id = g.gtt_id /\ k.status \in SyncStatuses
                        THEN [g EXCEPT !.status =
                                 (CHOOSE k \in listed : k.id = g.gtt_id).status]
                        ELSE g : g \in gtt_orders}
    /\ notified' = {}
    /\ UNCHANGED <<positions, trades, broker, mem, capital, runs, th>>

\* KiteWrapper.cancel_gtt that marks the local row before the broker answers
cancel_gtt_local_first(u, gtt_id) ==
    /\ gtt_orders' = update_gtt_status(gtt_orders, gtt_id, "CANCELLED")
    /\ \/ /\ \E k \in kite_gtts :
               /\ k.id = gtt_id /\ k.status = "ACTIVE"
               /\ kite_gtts' = (kite_gtts \ {k}) \cup {[k EXCEPT !.status = "CANCELLED"]}
          /\ th' = [th EXCEPT ![u].handled = @ \cup {gtt_id}]
       \/ /\ UNCHANGED kite_gtts
          /\ th' = [th EXCEPT ![u].handled = @ \cup {gtt_id}, ![u].errors = @ \cup {gtt_id}]

\* KiteWrapper.cancel_gtt: the broker call, then the local row; a failure of
\* the call is raised again and reaches the handler's st.error
cancel_gtt(u, gtt_id) ==
    \/ /\ \E k \in kite_gtts :
            /\ k.id = gtt_id /\ k.status = "ACTIVE"
            /\ kite_gtts' = (kite_gtts \ {k}) \cup {[k EXCEPT !.status = "CANCELLED"]}
       /\ gtt_orders' = update_gtt_status(gtt_orders, gtt_id, "CANCELLED")
       /\ th' = [th EXCEPT ![u].handled = @ \cup {gtt_id}]
    \/ /\ UNCHANGED <<kite_gtts, gtt_orders>>
       /\ th' = [th EXCEPT ![u].handled = @ \cup {gtt_id}, ![u].errors = @ \cup {gtt_id}]

\* "Cancel All GTTs" over the ACTIVE rows the page was drawn with
CancelAllStart(u) ==
    /\ u \in Sessions /\ At(u, "idle")
    /\ load_active_gtts(gtt_orders) # {}
    /\ th' = [th EXCEPT ![u].pc = "gtt_cancel",
                        ![u].active_gtts = load_active_gtts(gtt_orders)]
    /\ notified' = {}
    /\ UNCHANGED <<db, broker, mem, capital, runs>>

CancelStep(u) ==
    /\ At(u, "gtt_cancel")
    /\ \E gtt \in th[u].active_gtts :
         /\ gtt.gtt_id \notin th[u].handled
         /\ cancel_gtt(u, gtt.gtt_id)
    /\ notified' = {}
    /\ UNCHANGED <<positions, trades, kite_orders, next_order_id, next_gtt_id, mem, capital, runs>>

CancelReturn(u) ==
    /\ At(u, "gtt_cancel")
    /\ \A gtt \in th[u].active_gtts : gtt.gtt_id \in th[u].handled
    /\ Return(u)
    /\ notified' = {}
    /\ UNCHANGED <<db, broker, mem, capital, runs>>

\* "Create Manual GTT": KITE.place_gtt with the form's fields
ManualPlaceGtt(u) ==
    /\ u \in Sessions /\ At(u, "idle")
    /\ Cardinality(gtt_orders) < MaxGtt
    /\ \E gtt_symbol \in symbols, gtt_trigger_price \in ManualTriggers,
          gtt_transaction_type \in {"BUY", "SELL"}, gtt_order_type \in ManualOrderTypes :
         \/ \E product \in IF gtt_transaction_type = "BUY" THEN {"MTF", "CNC"} ELSE {"CNC"} :
              /\ gtt_orders' = save_gtt_order(gtt_orders, gtt_symbol, next_gtt_id,
                                   gtt_trigger_price * 100, gtt_order_type, DEFAULT_QTY,
                                   IF gtt_transaction_type = "BUY" THEN ">=" ELSE "<=",
                                   gtt_transaction_type, product)
              /\ next_gtt_id' = next_gtt_id + 1
              /\ kite_gtts' = kite_gtts \cup
                     {KiteGtt(next_gtt_id, gtt_symbol, gtt_transaction_type, DEFAULT_QTY)}
         \/ UNCHANGED <<gtt_orders, next_gtt_id, kite_gtts>>
    /\ notified' = {}
    /\ UNCHANGED <<positions, trades, kite_orders, next_order_id, mem, capital, runs, th>>

\* one dashboard session reconciling with the broker: the sidebar's setup and
\* monitor buttons, the tab's sync button, the broker acting on its triggers
InitGttSync == InitWith({"NIFTYBEES"}, {"u1"}, {FALSE})

Reconcile(u) ==
    \/ MonitorGttStart(u) \/ MonitorGttStep(u) \/ MonitorGttReturn(u)
    \/ SyncWithKite(u)

NextGttSync == (\E u \in Sessions : Reconcile(u)) \/ SetupGtt \/ BrokerGttEvent

SpecGttSync == InitGttSync /\ [][NextGttSync]_vars

\* the GTT tab's manual placement and bulk cancellation
InitGttCancel == InitWith({"NIFTYBEES"}, {"u1"}, {FALSE})

CancelAll(u) == CancelAllStart(u) \/ CancelStep(u) \/ CancelReturn(u)

NextGttCancel == (\E u \in Sessions : ManualPlaceGtt(u) \/ CancelAll(u)) \/ BrokerGttEvent

SpecGttCancel == InitGttCancel /\ [][NextGttCancel]_vars

\* ---- properties ----
OpenStatuses == {"BOUGHT", "ALERTED"}

\* program points of a buy after the gate, the gap check and the sizing
BuyingPoints == {"dry_trade", "dry_pos", "place", "verify", "rec_pos", "gtt_sell", "limit_sell"}

Moved(t) == th'[t] # th[t]

BuyRecords(s, sides) == {i \in DOMAIN trades : trades[i].symbol = s /\ trades[i].side \in sides}

BuyOrders(s) == {o \in kite_orders : o.symbol = s /\ o.transaction_type = "BUY"}

\* C1: in every reachable state each symbol has at most one positions row whose
\* status is BOUGHT or ALERTED.
C1_OneOpenRowPerSymbol ==
    \A s \in Symbols :
        Cardinality({r \in positions : r.symbol = s /\ r.status \in OpenStatuses}) <= 1

\* a symbol bought twice holds one open row
C1_Witness_BoughtTwice ==
    \E s \in Symbols :
        /\ Cardinality(BuyRecords(s, {"BUY"})) >= 2
        /\ \E r \in positions : r.symbol = s /\ r.status \in OpenStatuses

\* C2: two concurrent live check_and_execute_buy calls for one symbol place at
\* most one broker buy order and write at most one BUY or BUY_FAILED record,
\* the guard set letting only one of them through.
C2_SingleBuyPerSymbol ==
    \A s \in Symbols :
        /\ Cardinality(BuyOrders(s)) <= 1
        /\ Cardinality(BuyRecords(s, {"BUY", "BUY_FAILED"})) <= 1

\* C3: a buy attempt, from the monitor or from the manual BUY button, passes
\* its gate only when the symbol has no positions row with status BOUGHT or
\* ALERTED; past the gate an order is placed or a trade row is written.
C3_OpenPositionBlocksBuy ==
    [][\A t \in Threads :
          (\/ th[t].pc = "idle" /\ th'[t].pc \in {"place", "man_dry"}
           \/ th[t].pc = "gate_db" /\ th'[t].pc = "prev")
          => ~ \E r \in positions : r.symbol = th'[t].symbol /\ r.status \in OpenStatuses]_vars

\* C4: check_and_execute_buy does not pass its gate for a symbol that has a
\* gtt_orders row with status ACTIVE.
C4_ActiveGttBlocksBuy ==
    [][\A t \in Monitors :
          th[t].pc = "gate_db" /\ th'[t].pc = "prev"
          => ~ \E g \in gtt_orders : g.symbol = th[t].symbol /\ g.status = "ACTIVE"]_vars

\* C5: should_buy is true exactly when ltp <= prev_close * (1 - gap/100), the
\* boundary included (98.00 against 100.00 buys, 98.01 does not); a call goes on
\* to sizing only with such a price, and the call that ends at the decision
\* leaves positions, trades and broker orders as they were.
C5_GapDecision ==
    [][/\ should_buy(9800, 10000)
       /\ ~should_buy(9801, 10000)
       /\ \A l \in LtpValues, p \in PrevCloseValues :
             should_buy(l, p) <=> (l * 100 <= p * (100 - BUY_GAP_PERCENT))
       /\ \A t \in Monitors :
             At(t, "ltp") /\ Moved(t)
             => /\ th'[t].pc \in {"size", "idle"}
                /\ th'[t].pc = "size"
                   => th'[t].ltp * 100 <= th[t].prev_close * (100 - BUY_GAP_PERCENT)
                /\ th'[t].pc = "idle" => UNCHANGED <<positions, trades, kite_orders>>]_vars

\* the boundary price passed the decision
C5_Witness_BoundaryBuys ==
    \E t \in Monitors : At(t, "size") /\ th[t].ltp = 9800 /\ th[t].prev_close = 10000

\* C6: a check_and_execute_buy call whose resolved previous close is <= 0 never
\* reaches a program point that places an order or writes a trade or a position.
C6_NoBuyWithoutPrevClose ==
    \A t \in Threads :
        th[t].caller = "auto" /\ th[t].pc \in BuyingPoints => th[t].prev_close > 0

\* a call with previous close 0 passed the gap check and was sized to 0
C6_Witness_ZeroPrevClose ==
    \E t \in Monitors : At(t, "sized") /\ th[t].prev_close <= 0 /\ th[t].qty = 0

\* C7: the steps of check_and_execute_buy up to and including the return for an
\* unavailable previous close or price leave positions, trades, gtt_orders,
\* broker orders and bought_today unchanged.
C7_UnavailableDataNoChange ==
    [][\A t \in Monitors :
          /\ Moved(t)
          /\ \/ th[t].pc \in {"prev", "ltp"} /\ th'[t].pc = "idle"
             \/ th[t].pc = "gate_mem" /\ th'[t].pc = "gate_db"
             \/ th[t].pc = "gate_db" /\ th'[t].pc = "prev"
             \/ th[t].pc = "prev" /\ th'[t].pc = "ltp"
          => UNCHANGED <<positions, trades, gtt_orders, kite_orders, bought_today>>]_vars

\* the one call made so far has returned with the previous close still unknown
C7_Witness_PrevCloseUnavailable ==
    /\ runs = 1
    /\ \A t \in Threads : th[t].pc \in {"idle", "off"}
    /\ \A s \in symbols : last_prev_close[s] = NoPrevClose
    /\ trades = <<>> /\ positions = {} /\ bought_today = {}

C9_Sizing ==
    [][/\ per_trade_allocation(100000, 70, 5) = 3500 * 10000
       /\ dynamic_quantity(20000, 50, 10, 0, 25000) = 4
       /\ dynamic_quantity(20000, 50, 10, 0, 0) = 0
       /\ \A t \in Monitors :
             /\ /\ At(t, "size") /\ Moved(t)
                /\ total_capital' > 0
                /\ total_capital' * deployment_percentage * 100
                      - calculate_allocated_capital(positions) * 100
                   >= total_capital' * deployment_percentage * per_trade_percentage
                => LET budget == total_capital' * deployment_percentage * per_trade_percentage
                       price == th[t].ltp
                       q == th'[t].qty
                   IN /\ th'[t].pc = "sized"
                      /\ IF price > 0
                         THEN q >= 0 /\ q * price * 100 <= budget /\ budget < (q + 1) * price * 100
                         ELSE q = 0
             /\ At(t, "sized") /\ Moved(t)
                => th'[t].pc = IF th[t].qty = 0 THEN "idle"
                               ELSE IF th[t].dry_run THEN "dry_trade" ELSE "place"]_vars

\* 4 shares at 250.00 from a budget of 1000
C9_Witness_FourShares ==
    \E t \in Monitors :
        /\ At(t, "sized") /\ th[t].qty = 4 /\ th[t].ltp = 25000
        /\ total_capital = 20000 /\ deployment_percentage = 50 /\ per_trade_percentage = 10

LastTrade == trades[Len(trades)]

\* C11: when KITE.place_market_buy is rejected for MTF and for CNC, the step
\* appends exactly one trade row, with side BUY_FAILED for the symbol and the
\* requested quantity, places no order and leaves positions and gtt_orders as
\* they were; check_and_execute_buy also sends the failure notification.
C11_BothRejectedRecordsFailure ==
    [][\A t \in Threads :
          th[t].pc = "place" /\ th'[t].pc = "idle"
          => /\ Len(trades') = Len(trades) + 1
             /\ SubSeq(trades', 1, Len(trades)) = trades
             /\ trades'[Len(trades')].side = "BUY_FAILED"
             /\ trades'[Len(trades')].symbol = th[t].symbol
             /\ trades'[Len(trades')].qty = th[t].qty
             /\ positions' = positions
             /\ gtt_orders' = gtt_orders
             /\ kite_orders' = kite_orders
             /\ th[t].caller = "auto" => <<"BUY_FAILED", th[t].symbol>> \in notified']_vars

\* the monitor's buy was rejected twice: the failure row is the last trade, the
\* notification went out and no position exists
C11_Witness_RejectedTwice ==
    /\ trades # <<>>
    /\ LastTrade.side = "BUY_FAILED"
    /\ <<"BUY_FAILED", LastTrade.symbol>> \in notified
    /\ positions = {}
    /\ kite_orders = {}

PositionOf(P, s) == {r \in P : r.symbol = s}

C13_FailedProtectiveSellKeepsBuy ==
    [][\A t \in Threads :
          th[t].pc \in {"gtt_sell", "limit_sell"} /\ Moved(t)
          => /\ positions' = positions
             /\ \/ trades' = trades
                \/ /\ Len(trades') = Len(trades) + 1
                   /\ SubSeq(trades', 1, Len(trades)) = trades
                   /\ trades'[Len(trades')].side = "SELL_LIMIT_PLACED"
             /\ th[t].pc = "gtt_sell" /\ gtt_orders' = gtt_orders
                => <<"GTT_SELL_FAILED", th[t].symbol>> \in notified'
             /\ th[t].pc = "limit_sell" /\ kite_orders' = kite_orders
                => <<"SELL_ORDER_FAILED", th[t].symbol>> \in notified']_vars

\* the sell GTT just failed: the failure is notified, the BUY row and the BOUGHT
\* row are there, no GTT row and no BUY_FAILED row exist
C13_Witness_GttSellFailed ==
    \E t \in Monitors :
        /\ th[t].pc = "limit_sell"
        /\ <<"GTT_SELL_FAILED", th[t].symbol>> \in notified
        /\ gtt_orders = {}
        /\ PositionOf(positions, th[t].symbol) =
              {PositionRow(th[t].symbol, th[t].filled_qty, th[t].executed_price,
                           target_of(th[t].executed_price), "BOUGHT", th[t].product_used)}
        /\ BuyRecords(th[t].symbol, {"BUY"}) # {}
        /\ BuyRecords(th[t].symbol, {"BUY_FAILED"}) = {}

\* C14: when verify_order_execution does not report COMPLETE, the call ends
\* having appended exactly one trade row, BUY_PENDING with the id of the order
\* it placed, and having left positions, gtt_orders and the broker's orders as
\* they were.
C14_PendingOrderRecordedOnly ==
    [][\A t \in Threads :
          th[t].pc = "verify" /\ Moved(t)
          => /\ Len(trades') = Len(trades) + 1
             /\ SubSeq(trades', 1, Len(trades)) = trades
             /\ positions' = positions
             /\ gtt_orders' = gtt_orders
             /\ kite_orders' = kite_orders
             /\ IF th'[t].pc = "rec_pos"
                THEN trades'[Len(trades')].side = "BUY"
                ELSE /\ th'[t].pc = "idle"
                     /\ trades'[Len(trades')].side = "BUY_PENDING"
                     /\ trades'[Len(trades')].symbol = th[t].symbol
                     /\ trades'[Len(trades')].order_id = th[t].order_id
                     /\ \E o \in BuyOrders(th[t].symbol) : o.order_id = th[t].order_id]_vars

\* the first buy order is pending: one BUY_PENDING row with its id, no position,
\* no GTT row and no sell order
C14_Witness_OrderPending ==
    /\ Len(trades) = 1
    /\ LastTrade.side = "BUY_PENDING"
    /\ \E o \in BuyOrders(LastTrade.symbol) : o.order_id = LastTrade.order_id
    /\ positions = {}
    /\ gtt_orders = {}
    /\ \A o \in kite_orders : o.transaction_type = "BUY"
    /\ \A t \in Threads : th[t].pc \in {"idle", "off"}

StatusOf(P, s) == {r.status : r \in PositionOf(P, s)}

\* C15: a pass of monitor_loop that reads a BOUGHT or ALERTED row and a price
\* at or above the row's target_price takes the target branch: it notifies
\* TARGET HIT, writes the row back with status TARGET_HIT, and then removes the
\* symbol from bought_today.
C15_TargetHitTransition ==
    [][\A t \in Monitors :
          /\ th[t].pc = "idle" /\ th'[t].pc \in {"eval_target", "eval_alert"}
             => /\ th'[t].row \in positions
                /\ th'[t].row.symbol = th'[t].symbol
                /\ (th'[t].row.status \in OpenStatuses
                    /\ th'[t].ltp * 100 >= th'[t].row.target_price)
                   <=> th'[t].pc = "eval_target"
          /\ th[t].pc = "eval_target" /\ Moved(t)
             => /\ StatusOf(positions', th[t].symbol) = {"TARGET_HIT"}
                /\ <<"TARGET_HIT", th[t].symbol>> \in notified'
                /\ th'[t].pc = "eval_release"
          /\ th[t].pc = "eval_release" /\ Moved(t)
             => th[t].symbol \notin bought_today']_vars

\* an ALERTED row whose symbol is in bought_today met a price above its target:
\* the row is TARGET_HIT and the notification went out
C15_Witness_AlertedHitsTarget ==
    \E t \in Monitors :
        /\ th[t].pc = "eval_release"
        /\ th[t].row.status = "ALERTED"
        /\ th[t].symbol \in bought_today
        /\ StatusOf(positions, th[t].symbol) = {"TARGET_HIT"}
        /\ <<"TARGET_HIT", th[t].symbol>> \in notified

\* C16: a pass of monitor_loop alerts only on a row it read as BOUGHT, with
\* the price at or below avg_buy_price * (1 - LOSS_ALERT_PERCENT/100) and below
\* the target; the alert step notifies, writes ALERTED and places no order and
\* no trade row; and the row it alerts is BOUGHT in the store at that moment,
\* never already ALERTED or closed, so that one position is alerted at most
\* once.
C16_AlertOncePerPosition ==
    [][\A t \in Monitors :
          /\ th[t].pc = "idle" /\ th'[t].pc = "eval_alert"
             => /\ th'[t].row.status = "BOUGHT"
                /\ th'[t].ltp * 100 <= th'[t].row.avg_buy_price * (100 - LOSS_ALERT_PERCENT)
                /\ th'[t].ltp * 100 < th'[t].row.target_price
          /\ th[t].pc = "eval_alert" /\ Moved(t)
             => /\ StatusOf(positions, th[t].symbol) = {"BOUGHT"}
                /\ StatusOf(positions', th[t].symbol) = {"ALERTED"}
                /\ <<"STOP_LOSS_ALERT", th[t].symbol>> \in notified'
                /\ kite_orders' = kite_orders
                /\ trades' = trades
                /\ gtt_orders' = gtt_orders]_vars

\* C17: no step takes a positions row whose status is ALERTED to any status
\* other than ALERTED, TARGET_HIT or SOLD; in particular none sets it back to
\* BOUGHT, and none deletes the row.
C17_AlertedIsSticky ==
    [][\A s \in Symbols :
          "ALERTED" \in StatusOf(positions, s)
          => StatusOf(positions', s) \in {{"ALERTED"}, {"TARGET_HIT"}, {"SOLD"}}]_vars

TerminalStatuses == {"TARGET_HIT", "SOLD"}

\* C18: when the cleanup of a monitor_loop pass has run, positions holds no row
\* with status TARGET_HIT or SOLD, and the cleanup reports removed rows exactly
\* when it removed some.
C18_CleanupPurgesTerminalRows ==
    [][\A t \in Monitors :
          th[t].pc = "hk_remove" /\ th'[t].pc = "idle"
          => /\ \A r \in positions' : r.status \notin TerminalStatuses
             /\ <<"CLEANED_UP", "-">> \in notified' <=> positions' # positions]_vars

\* C19: when the cleanup of a pass runs for a symbol whose row is TARGET_HIT
\* (and the monitor may still start a buy), a later pass calls
\* check_and_execute_buy for that symbol.
C19_RebuyAfterTargetHit ==
    \A s \in Symbols :
        (/\ MayStart
         /\ StatusOf(positions, s) = {"TARGET_HIT"}
         /\ \E t \in Monitors : th[t].pc = "hk_remove" /\ th[t].closed = {})
        ~> (\E t \in Monitors : th[t].pc = "gate_mem" /\ th[t].symbol = s)

ManualSellSides == {"SELL", "SELL_LIMIT", "SELL_MARKET"}

\* a step of the SELL button or of a quick action for symbol s: a manual sell
\* row for s is appended, or a sell order for s is placed by the dashboard
\* session while no thread moves
ManualSellStep(s) ==
    \/ /\ Len(trades') = Len(trades) + 1
       /\ trades'[Len(trades')].symbol = s
       /\ trades'[Len(trades')].side \in ManualSellSides
    \/ /\ th' = th
       /\ \E o \in kite_orders' \ kite_orders : o.symbol = s /\ o.transaction_type = "SELL"

\* C20: a manual sell of a symbol whose row is BOUGHT or ALERTED leaves the row
\* with status SOLD, so that calculate_allocated_capital no longer counts it
\* and the next cleanup releases the symbol.
C20_ManualSellMarksSold ==
    [][\A s \in Symbols :
          ManualSellStep(s) /\ StatusOf(positions, s) \subseteq OpenStatuses
                            /\ StatusOf(positions, s) # {}
          => /\ StatusOf(positions', s) = {"SOLD"}
             /\ calculate_allocated_capital(PositionOf(positions', s)) = 0]_vars

\* ---- GTT reconciliation ----
\* the turn of monitor_gtt_executions' loop taken for the listed trigger gtt
ReconcileTurn(u, gtt) ==
    /\ th[u].pc = "gtt_mon"
    /\ gtt \in th[u].active_gtts
    /\ th'[u].handled = th[u].handled \cup {gtt.id}
    /\ gtt.id \notin th[u].handled

MarkedTriggered(gtt) ==
    \E g \in gtt_orders : g.gtt_id = gtt.id /\ g.status = "TRIGGERED"

\* C21: reconciliation is idempotent on a triggered buy GTT: the turn taken
\* for a buy trigger whose local row already carries TRIGGERED (an earlier
\* reconciliation marked it) places no further sell GTT and changes no row.
C21_ReconcileTwiceIsOnce ==
    [][\A u \in Sessions : \A gtt \in th[u].active_gtts :
          ReconcileTurn(u, gtt) /\ gtt.status = "TRIGGERED"
          /\ gtt.transaction_type = "BUY" /\ MarkedTriggered(gtt)
          => kite_gtts' = kite_gtts /\ gtt_orders' = gtt_orders]_vars

\* C22: at most one ACTIVE row of gtt_orders per symbol, whatever setups,
\* manual placements, reconciliations and cancellations have run.
C22_OneActiveGttPerSymbol ==
    \A s \in Symbols : Cardinality({g \in load_active_gtts(gtt_orders) : g.symbol = s}) <= 1

\* C23: when monitor_gtt_executions returns, every local row whose trigger the
\* broker listed as TRIGGERED, CANCELLED or COMPLETED carries that status; no
\* such row is still ACTIVE.
C23_ReconcileMirrorsBroker ==
    [][\A u \in Sessions :
          th[u].pc = "gtt_mon" /\ th'[u].pc = "idle"
          => \A gtt \in th[u].active_gtts : \A g \in gtt_orders' :
                g.gtt_id = gtt.id /\ gtt.status \in {"TRIGGERED", "CANCELLED", "COMPLETED"}
                => g.status = gtt.status]_vars

\* ---- GTT cancellation ----
\* the turn of the bulk cancellation taken for the trigger gtt_id
CancelTurn(u, gtt_id) ==
    /\ th[u].pc = "gtt_cancel"
    /\ gtt_id \notin th[u].handled
    /\ th'[u].handled = th[u].handled \cup {gtt_id}

OtherRows(G, gtt_id) == {g \in G : g.gtt_id # gtt_id}

\* C29: a cancellation touches the row of its gtt_id only. When the broker
\* cancels, that row becomes CANCELLED; when the broker call fails, the error
\* reaches the caller and gtt_orders is as before. cancel_gtt_order likewise
\* sets CANCELLED on the one row and leaves the others.
C29_CancelTouchesOneRow ==
    [][\A u \in Sessions : \A gtt \in th[u].active_gtts :
          CancelTurn(u, gtt.gtt_id)
          => /\ OtherRows(gtt_orders', gtt.gtt_id) = OtherRows(gtt_orders, gtt.gtt_id)
             /\ IF kite_gtts' # kite_gtts
                THEN /\ \A g \in gtt_orders' : g.gtt_id = gtt.gtt_id => g.status = "CANCELLED"
                     /\ gtt.gtt_id \notin th'[u].errors
                ELSE /\ gtt_orders' = gtt_orders
                     /\ gtt.gtt_id \in th'[u].errors
             /\ OtherRows(cancel_gtt_order(gtt_orders, gtt.gtt_id), gtt.gtt_id)
                    = OtherRows(gtt_orders, gtt.gtt_id)
             /\ \A g \in cancel_gtt_order(gtt_orders, gtt.gtt_id) :
                    g.gtt_id = gtt.gtt_id => g.status = "CANCELLED"]_vars

\* a bulk cancellation in which the broker cancelled one trigger and refused
\* another: the first row is CANCELLED, the second still ACTIVE
C29_Witness_OneCancelledOneRefused ==
    \E u \in Sessions : \E a \in gtt_orders, b \in gtt_orders :
        /\ th[u].pc = "gtt_cancel"
        /\ a.gtt_id \in th[u].handled \ th[u].errors
        /\ a.status = "CANCELLED"
        /\ b.gtt_id \in th[u].errors
        /\ b.status = "ACTIVE"
        /\ \E k \in kite_gtts : k.id = a.gtt_id /\ k.status = "CANCELLED"

\* ---- capital ----
\* C24: a balance fetch that fails or answers nothing positive leaves
\* total_capital and last_balance_update as they were: whenever a step writes
\* either of them, the balance written is positive, so a positive
\* total_capital is never replaced by 0.
C24_RefreshFailsSoft ==
    [][total_capital' # total_capital \/ last_balance_update' # last_balance_update
       => total_capital' > 0]_vars

\* the cost of the rows that are neither TARGET_HIT nor SOLD in this state (paise)
RECURSIVE CostOf(_)
CostOf(S) ==
    IF S = {} THEN 0
    ELSE LET r == CHOOSE x \in S : TRUE IN r.qty * r.avg_buy_price + CostOf(S \ {r})

AllocatedNow == CostOf({r \in positions : r.status # "TARGET_HIT" /\ r.status # "SOLD"})

C27_HousekeepingRefreshesBalance ==
    \A t \in Monitors :
        (th[t].pc = "hk_remove") ~> (total_capital > 0 /\ last_balance_update)

\* ---- the guard set around a live buy ----
\* C28: a live buy of check_and_execute_buy that ends with BUY_FAILED places
\* no order in that call and leaves the symbol free for a new attempt: the
\* symbol is not in bought_today when the call returns, so that a later pass
\* or the manual BUY button gets past the guard without a reset.
C28_FailedBuyLeavesSymbolFree ==
    [][\A t \in Monitors :
          th[t].pc = "place" /\ th'[t].pc = "idle"
          => /\ kite_orders' = kite_orders
             /\ trades'[Len(trades')].side = "BUY_FAILED"
             /\ th[t].symbol \notin bought_today']_vars

\* C30: a buy run that has reached the live order placement, from the monitor
\* or from the manual BUY button, has its symbol in bought_today: in no state
\* is a thread about to place a buy order, or waiting on the order it placed,
\* for a symbol that is not in the guard set.
C30_GuardedBeforeOrder ==
    \A t \in Threads : th[t].pc \in {"place", "verify"} => th[t].symbol \in bought_today

\* ---- the product of a live buy ----
\* C31: a live market buy tries MTF first and CNC only after MTF was rejected:
\* at most two attempts, one order placed, with the product of the attempt
\* that succeeded; and the positions row written for the fill carries that
\* product.
C31_ProductOfSuccessfulAttempt ==
    [][\A t \in Threads :
          /\ th[t].pc = "place" /\ th'[t].pc = "verify"
             => /\ th'[t].attempts \in {<<"MTF">>, <<"MTF", "CNC">>}
                /\ th'[t].product_used = th'[t].attempts[Len(th'[t].attempts)]
                /\ \E o \in kite_orders' :
                      /\ kite_orders' \ kite_orders = {o}
                      /\ o.symbol = th[t].symbol /\ o.product = th'[t].product_used
          /\ th[t].pc = "rec_pos" /\ Moved(t)
             => \E r \in positions' :
                   r.symbol = th[t].symbol /\ r.product = th[t].product_used]_vars

\* ---- one evaluation of an open row ----
\* C32: one evaluation makes at most one status transition and the target
\* test comes first: an evaluation whose quote is at or above the target of
\* the row it read, a row with average price and target 0 included, does not
\* go on to write ALERTED.
C32_TargetBeforeAlert ==
    [][\A t \in Monitors :
          th[t].pc = "eval_alert" /\ Moved(t)
          => th[t].ltp * 100 < th[t].row.target_price]_vars

\* ---- a session whose capital figures stay as they are ----
BudgetCapital == {1000, 100000}

\* the balance has been fetched once; nobody presses Refresh or moves a slider
InitBudget ==
    /\ symbols = {"NIFTYBEES"}
    /\ positions = {}
    /\ trades = <<>>
    /\ gtt_orders = {}
    /\ kite_orders = {}
    /\ next_order_id = 1
    /\ next_gtt_id = 1
    /\ kite_gtts = {}
    /\ notified = {}
    /\ bought_today = {}
    /\ last_prev_close = [s \in Symbols |-> NoPrevClose]
    /\ total_capital \in BudgetCapital
    /\ last_balance_update = TRUE
    /\ deployment_percentage = 70
    /\ reserve_percentage = 30
    /\ per_trade_percentage = 5
    /\ dry_run \in BOOLEAN
    /\ runs = 0
    /\ th = [t \in Threads |-> IF t \in {"m1", "u1"} THEN Idle ELSE [Idle EXCEPT !.pc = "off"]]

NextBudget ==
    \/ \E t \in Monitors :
          \/ MonitorEvaluate(t) \/ MonitorCallBuy(t)
          \/ EvalTarget(t) \/ EvalRelease(t) \/ EvalAlert(t)
          \/ GateMemory(t) \/ GateDatabase(t) \/ ResolvePrevClose(t)
          \/ Decide(t) \/ Size(t) \/ CheckQuantity(t)
          \/ DryTrade(t) \/ DryPosition(t)
          \/ GttSell(t) \/ LimitSell(t)
    \/ \E t \in Threads :
          \/ PlaceMarketBuy(t) \/ VerifyAndRecord(t) \/ RecordPosition(t)
    \/ \E u \in Sessions : ManualBuy(u) \/ ManualBuyDryRun(u)

SpecBudget == InitBudget /\ [][NextBudget]_vars

\* ---- DB_LOCK and the broker ----
\* the points at which the next thing a thread does is a call to the broker
BrokerPoints == {"prev", "ltp", "size", "place", "verify", "gtt_sell", "limit_sell"}

\* C33: no thread owns DB_LOCK while it has a broker call in flight.
C33_NoBrokerCallUnderLock ==
    \A t \in Threads : th[t].pc \in BrokerPoints => ~th[t].holds_db_lock

\* one thread inside the gate's block while the other waits on its order
C33_Witness_LockHeldBesideOrder ==
    \E t \in Monitors, o \in Monitors :
        /\ th[t].holds_db_lock /\ th[t].pc = "gate_db_cs"
        /\ th[o].pc = "verify"

\* ---- capital ceiling ----
\* C34: with the capital and the percentages left alone, the cost of the open
\* positions (paise) never exceeds the deployment capital, whatever automated
\* and manual buys have run.
C34_AllocatedWithinDeployment ==
    AllocatedNow <= total_capital * deployment_percentage

\* ---- what an evaluation writes ----
\* C35: the steps of the monitor that mark a position ALERTED or TARGET_HIT
\* change the status of its row only; quantity, average buy price, target
\* price and product stay as they were.
C35_EvaluationChangesStatusOnly ==
    [][\A t \in Monitors :
          th[t].pc \in {"eval_target", "eval_alert"} /\ Moved(t)
          => \A r \in PositionOf(positions, th[t].symbol) :
                \E status \in {"TARGET_HIT", "ALERTED"} :
                   PositionOf(positions', th[t].symbol) = {[r EXCEPT !.status = status]}]_vars

\* ---- sell orders against a position ----
RECURSIVE QuantityOf(_)
QuantityOf(S) ==
    IF S = {} THEN 0
    ELSE LET o == CHOOSE x \in S : TRUE IN o.quantity + QuantityOf(S \ {o})

\* shares offered for sale at the broker: sell orders and active sell triggers
SellQuantityPlaced(s) ==
    QuantityOf({o \in kite_orders : o.symbol = s /\ o.transaction_type = "SELL"})
    + QuantityOf({g \in kite_gtts : g.tradingsymbol = s /\ g.transaction_type = "SELL"
                                    /\ g.status = "ACTIVE"})

\* C36: the sell orders placed for a position bought live (the protective GTT
\* sell and the target limit sell together) never offer more shares than the
\* position holds.
C36_SellsWithinFilledQuantity ==
    \A r \in positions :
        r.status \in OpenStatuses => SellQuantityPlaced(r.symbol) <= r.qty

\* ---- a buy order the broker has not filled yet ----
\* the symbols with a BUY_PENDING record; nothing in the program looks at such
\* an order again, so the record stands for an order still open
PendingBuys == {trades[i].symbol : i \in {j \in DOMAIN trades : trades[j].side = "BUY_PENDING"}}

\* C37: once a live buy of a symbol is recorded BUY_PENDING, no step places a
\* further buy order for that symbol, whether a tick or the manual button,
\* before or after the daily guard was reset.
C37_NoSecondBuyWhilePending ==
    [][\A s \in PendingBuys : BuyOrders(s)' \subseteq BuyOrders(s)]_vars

\* ---- a buy given up for want of capital ----
\* C38: a call of check_and_execute_buy that passed the gap test and returns
\* because the computed quantity is 0 (capital insufficient, or the allocation
\* buys no share) leaves the symbol out of bought_today, so that a later pass
\* can buy it without a reset.
C38_AbortedSizingLeavesSymbolFree ==
    [][\A t \in Monitors :
          th[t].pc = "sized" /\ th[t].qty <= 0 /\ Moved(t)
          => /\ th'[t].pc = "idle"
             /\ th[t].symbol \notin bought_today']_vars

\* ---- a BUY record and its position ----
\* the points from which the next step of a buy writes the positions row
RecordingPoints == {"dry_pos", "rec_pos"}

====
